---- MODULE Spec2Model ----
(***************************************************************************)
(* Model of the Books store (src/Books/Books.controller.ts): the           *)
(* observable view state and the asynchronous operations loadBooks,        *)
(* loadPrivateBooksCount, addBook, setViewType and init, run against a     *)
(* repository whose promises settle at arbitrary later times.              *)
(*                                                                         *)
(* An async function runs synchronously up to its first await; everything  *)
(* after an await runs in one piece when the awaited promise has settled.  *)
(* Each such piece is one atomic step of the model.  Pieces of different   *)
(* calls interleave in any order.                                          *)
(*                                                                         *)
(* The repository (src/Books/Books.repository.ts) and the gateway          *)
(* (src/Shared/ApiGateway.ts) hold no state of their own: they are         *)
(* functions of what fetch settles to, and are run by themselves, call     *)
(* after call, in RepositorySpec.                                          *)
(***************************************************************************)
EXTENDS Integers, Sequences, FiniteSets, Bags, TLC

\* ---- bounds ------------------------------------------------------------
MaxOps == 2        \* calls made from outside the store (view, tests, module load)
MaxLen == 1        \* longest list a fetch resolves to
MaxCalls == 2      \* calls of the gateway made by the repository
MaxNow == 1        \* how far the clock runs
MaxWired == 1      \* calls made from outside the store wired to the repository

\* ---- values ------------------------------------------------------------
\* the store never looks inside a book: one book is enough to tell lists apart
\* by their length
Book == {"b1"}
BookLists == UNION {[1..n -> Book] : n \in 0..MaxLen}
Messages == {"Network Error"}
null == "<null>"

\* what a repository promise settles to
Outcome(kind, list, msg) == [kind |-> kind, list |-> list, msg |-> msg]
NoOutcome == Outcome("pending", <<>>, "")
\* getBooks / getPrivateBooks: an array, a non-array value (null, object),
\* a rejection with an Error, a rejection with some other thrown value
FetchOutcomes ==
    {Outcome("array", l, "") : l \in BookLists}
        \cup {Outcome("nonarray", <<>>, "")}
        \cup {Outcome("Error", <<>>, m) : m \in Messages}
        \cup {Outcome("thrown", <<>>, "")}
\* addBook: a truthy value, a falsy value, or a rejection
AddOutcomes ==
    {Outcome("true", <<>>, ""), Outcome("false", <<>>, "")}
        \cup {Outcome("Error", <<>>, m) : m \in Messages}
        \cup {Outcome("thrown", <<>>, "")}

isArray(o) == o.kind = "array"
instanceofError(o) == o.kind = "Error"
rejected(o) == o.kind \in {"Error", "thrown"}

\* arguments the callers pass
Names == {"", "Dune"}
ViewTypes == {"all", "private", "invalid"}

\* ---- gateway (src/Shared/ApiGateway.ts) --------------------------------
undefined == "<undefined>"
API_URL_BASE == "https://tdd.demo.reaktivate.com/v1/books/test-test-test"

\* a JSON value, as far as the code looks into it: its type, the elements
\* of an array, the status and message properties of an object
JSONValue(type, list, status, message) ==
    [type |-> type, list |-> list, status |-> status, message |-> message]
JSONnull == JSONValue("null", <<>>, undefined, undefined)
SyntaxError == JSONValue("SyntaxError", <<>>, undefined, undefined)

\* body texts
RECURSIVE ElementsText(_)
ElementsText(l) ==
    IF l = <<>> THEN ""
    ELSE "{\"name\":\"" \o Head(l) \o "\"}"
             \o (IF Len(l) > 1 THEN "," ELSE "") \o ElementsText(Tail(l))
ArrayText(l) == "[" \o ElementsText(l) \o "]"
ArrayTexts == {ArrayText(l) : l \in BookLists}
StatusText(status) == "{\"status\":\"" \o status \o "\"}"
MessageText(message) == "{\"message\":\"" \o message \o "\"}"
Statuses == {"ok", "error"}
ErrorMessages == {"Book exists"}

JSONparse(text) ==
    IF text \in ArrayTexts
    THEN JSONValue("array", CHOOSE l \in BookLists : ArrayText(l) = text,
                   undefined, undefined)
    ELSE IF \E status \in Statuses : text = StatusText(status)
    THEN JSONValue("object", <<>>,
                   CHOOSE status \in Statuses : text = StatusText(status), undefined)
    ELSE IF \E message \in ErrorMessages : text = MessageText(message)
    THEN JSONValue("object", <<>>, undefined,
                   CHOOSE message \in ErrorMessages : text = MessageText(message))
    ELSE IF text = "{}" THEN JSONValue("object", <<>>, undefined, undefined)
    ELSE IF text = "null" THEN JSONnull
    ELSE SyntaxError

\* what fetch settles to: a response, or a rejection (the network is down)
Response(ok, status, statusText, text) ==
    [failed |-> FALSE, ok |-> ok, status |-> status, statusText |-> statusText,
     text |-> text]
NetworkFailure ==
    [failed |-> TRUE, ok |-> FALSE, status |-> 0, statusText |-> "",
     text |-> "Failed to fetch"]
OkTexts == ArrayTexts \cup {StatusText(status) : status \in Statuses}
               \cup {"", "null", "<html>"}
ErrorTexts == {MessageText(message) : message \in ErrorMessages}
                  \cup {"", "{}", "null", "<html>"}
Responses ==
    {Response(TRUE, 200, "OK", text) : text \in OkTexts}
        \cup {Response(FALSE, 500, "Internal Server Error", text) : text \in ErrorTexts}
        \cup {Response(FALSE, 404, "", text) : text \in ErrorTexts}
        \cup {NetworkFailure}

\* what a gateway promise settles to: a value, or a rejection with an Error
Got(kind, value, msg) == [kind |-> kind, value |-> value, msg |-> msg]

\* get(path) when fetch(url) settles to response; the catch block logs and
\* throws again what was thrown
get(path, response) ==
    IF response.failed
    THEN Got("Error", JSONnull, response.text)
    ELSE IF ~response.ok
    THEN LET errorText == response.text
             errorJson == JSONparse(errorText)
             errorMessage ==
                 IF errorJson = SyntaxError \/ errorJson = JSONnull
                 THEN \* JSON.parse threw, or reading a property of null did
                      "HTTP error " \o ToString(response.status) \o ": "
                          \o (IF response.statusText # "" THEN response.statusText
                              ELSE IF errorText # "" THEN errorText
                              ELSE "Unknown error")
                 ELSE IF errorJson.message \notin {undefined, ""}
                 THEN errorJson.message
                 ELSE "HTTP error " \o ToString(response.status)
         IN  Got("Error", JSONnull, errorMessage)
    ELSE LET text == response.text
         IN  IF text = "" THEN Got("value", JSONnull, "")
             ELSE LET result == JSONparse(text)
                  IN  IF result = SyntaxError
                      THEN Got("Error", JSONnull, "Unexpected token")
                      ELSE Got("value", result, "")

\* variant: an empty body is parsed like any other
post_parseEmpty(path, payload, response) ==
    IF response.failed
    THEN Got("Error", JSONnull, response.text)
    ELSE IF ~response.ok
    THEN LET errorText == response.text
             errorJson == JSONparse(errorText)
             errorMessage ==
                 IF errorJson = SyntaxError \/ errorJson = JSONnull
                 THEN "HTTP error " \o ToString(response.status) \o ": "
                          \o (IF response.statusText # "" THEN response.statusText
                              ELSE IF errorText # "" THEN errorText
                              ELSE "Unknown error")
                 ELSE IF errorJson.message \notin {undefined, ""}
                 THEN errorJson.message
                 ELSE "HTTP error " \o ToString(response.status)
         IN  Got("Error", JSONnull, errorMessage)
    ELSE LET result == JSONparse(response.text)
         IN  IF result = SyntaxError
             THEN Got("Error", JSONnull, "Unexpected token")
             ELSE Got("value", result, "")

\* post(path, payload) when fetch(url, {method, headers, body}) settles to
\* response
post(path, payload, response) ==
    IF response.failed
    THEN Got("Error", JSONnull, response.text)
    ELSE IF ~response.ok
    THEN LET errorText == response.text
             errorJson == JSONparse(errorText)
             errorMessage ==
                 IF errorJson = SyntaxError \/ errorJson = JSONnull
                 THEN "HTTP error " \o ToString(response.status) \o ": "
                          \o (IF response.statusText # "" THEN response.statusText
                              ELSE IF errorText # "" THEN errorText
                              ELSE "Unknown error")
                 ELSE IF errorJson.message \notin {undefined, ""}
                 THEN errorJson.message
                 ELSE "HTTP error " \o ToString(response.status)
         IN  Got("Error", JSONnull, errorMessage)
    ELSE LET text == response.text
         IN  IF text = "" THEN Got("value", JSONnull, "")
             ELSE LET result == JSONparse(text)
                  IN  IF result = SyntaxError
                      THEN Got("Error", JSONnull, "Unexpected token")
                      ELSE Got("value", result, "")

\* ---- repository (src/Books/Books.repository.ts) ------------------------
\* variant: a failure of the get is caught here too
getBooks_caught(booksDto) ==
    IF booksDto.kind = "Error"
    THEN Outcome("array", <<>>, "")
    ELSE Outcome("array",
                 IF booksDto.value.type = "array" THEN booksDto.value.list ELSE <<>>,
                 "")

\* getBooks() when get("/") settles to booksDto: a rejection goes on to the
\* caller
getBooks(booksDto) ==
    IF booksDto.kind = "Error"
    THEN Outcome("Error", <<>>, booksDto.msg)
    ELSE Outcome("array",
                 IF booksDto.value.type = "array" THEN booksDto.value.list ELSE <<>>,
                 "")

\* variant: no try/catch around the get
getPrivateBooks_noCatch(booksDto) ==
    IF booksDto.kind = "Error"
    THEN Outcome("Error", <<>>, booksDto.msg)
    ELSE Outcome("array",
                 IF booksDto.value.type = "array" THEN booksDto.value.list ELSE <<>>,
                 "")

\* getPrivateBooks() when get("/private") settles to booksDto: a rejection
\* is logged and an empty list returned
getPrivateBooks(booksDto) ==
    IF booksDto.kind = "Error"
    THEN Outcome("array", <<>>, "")
    ELSE Outcome("array",
                 IF booksDto.value.type = "array" THEN booksDto.value.list ELSE <<>>,
                 "")

\* Math.random() is a multiple of 1 / RandomUnits in [0, 1), given by its
\* numerator
RandomUnits == 2000
Randoms == {0, 1, 2, RandomUnits - 1}
\* Math.floor(Date.now() + Math.random() * 1000)
generateUniqueId(now, random) == (now * RandomUnits + random * 1000) \div RandomUnits

\* the book data the callers pass; the repository does not validate it
BookData == {[name |-> "Dune", author |-> "Herbert"], [name |-> "", author |-> "Dune"]}

\* the payload of the POST
Payload(id, bookData) ==
    [id |-> id, name |-> bookData.name, author |-> bookData.author]

\* variant: any object in the body counts as success
addBook_anyObject(bookAddDto) ==
    IF bookAddDto.kind = "Error"
    THEN Outcome("Error", <<>>, bookAddDto.msg)
    ELSE IF bookAddDto.value # JSONnull
    THEN Outcome("true", <<>>, "")
    ELSE Outcome("false", <<>>, "")

\* addBook(bookData) when post("/", payload) settles to bookAddDto
addBook(bookAddDto) ==
    IF bookAddDto.kind = "Error"
    THEN Outcome("Error", <<>>, bookAddDto.msg)
    ELSE IF bookAddDto.value # JSONnull /\ bookAddDto.value.status = "ok"
    THEN Outcome("true", <<>>, "")
    ELSE Outcome("false", <<>>, "")

\* ---- state -------------------------------------------------------------
VARIABLES
    store,   \* the observable fields: books, isLoading, error, viewType, privateBooksCount
    calls,   \* the calls made from outside the store that are running, each
             \* with the store calls it made in turn, and the calls that came
             \* to their end in the step just taken
    ops,     \* how many calls have been made from outside the store
    last,    \* the step just taken: which call moved, and what its promise settled to
    clock,   \* Date.now()
    http,    \* the calls of the gateway made so far, in order
    result   \* the repository call just made: the response of the server,
             \* what the gateway gave for it and what the repository returned

vars == <<store, calls, ops, last, clock, http, result>>
\* the store is run against a repository given to createBooksStore; the
\* repository of src/Books/Books.repository.ts is run by itself
repository == <<clock, http, result>>
controller == <<store, calls, ops, last>>
NoResult ==
    [fn |-> "none", args |-> <<>>, response |-> NetworkFailure,
     got |-> Got("none", JSONnull, ""), value |-> NoOutcome, calls |-> <<>>]

\* A call of a store operation.  pc: where it is; reqs: the repository
\* functions it has called, in order; kids: the store operations it has
\* called, in order; solo: no other call from outside has run beside it.
Frame(op) == [op |-> op, pc |-> "start", reqs |-> <<>>, kids |-> <<>>, solo |-> FALSE]

Returned(c) == c.pc = "done"
\* suspended at an await of a repository promise
Pending(c) == c.pc \in {"fetch", "add"}
\* a call from outside is over when it and the calls it made have returned
Over(c) == Returned(c) /\ \A i \in 1..Len(c.kids) : Returned(c.kids[i])
Requests(c, fn) == {i \in 1..Len(c.reqs) : c.reqs[i] = fn}
Kids(c, op) == {i \in 1..Len(c.kids) : c.kids[i].op = op}

Put(B, c) == B (+) SetToBag({c})
Take(B, c) == B (-) SetToBag({c})
Running == BagToSet(calls)
\* the frames of calls that are over are gone when the next step runs
Live == LET keep == {c \in Running : ~Over(c)}
        IN  [c \in keep |-> calls[c]]
\* a call from outside is alone if nothing is running, and the calls already
\* running are no longer alone
Outside(op) == [Frame(op) EXCEPT !.solo = (Live = EmptyBag)]
Entered == LET beside == {[c EXCEPT !.solo = FALSE] : c \in BagToSet(Live)}
           IN  [b \in beside |->
                   (IF BagIn(b, Live) THEN Live[b] ELSE 0)
                   + (IF BagIn([b EXCEPT !.solo = TRUE], Live)
                      THEN Live[[b EXCEPT !.solo = TRUE]] ELSE 0)]

\* kind: "call" (with the arguments passed), "settle" (with what the awaited
\* repository promise settled to), "resume" (an awaited store call returned);
\* call: the call from outside that moved, as it is now; kid: which of the
\* calls it made took the step (0: the call itself)
Step(kind, call, kid, args, o) ==
    [kind |-> kind, call |-> call, kid |-> kid, args |-> args, got |-> o]

\* the step of a new call from outside, which ran to r = [store, call]
Called(r, args) ==
    /\ ops < MaxOps
    /\ ops' = ops + 1
    /\ store' = r.store
    /\ calls' = Put(Entered, r.call)
    /\ last' = Step("call", r.call, 0, args, NoOutcome)
    /\ UNCHANGED repository

\* the step of a running call c, which became r.call
Went(kind, c, r, kid, o) ==
    /\ ops' = ops
    /\ store' = r.store
    /\ calls' = Put(Take(Live, c), r.call)
    /\ last' = Step(kind, r.call, kid, <<>>, o)
Moved(kind, c, r, kid, o) ==
    /\ Went(kind, c, r, kid, o)
    /\ UNCHANGED repository

\* a step of the i-th call made by c, which became r.call
Lifted(c, i, r) == [store |-> r.store, call |-> [c EXCEPT !.kids[i] = r.call]]
MovedKid(kind, c, i, r, o) ==
    Moved(kind, c, Lifted(c, i, r), i, o)

Init ==
    /\ store = [books |-> <<>>, isLoading |-> FALSE, error |-> null,
                viewType |-> "all", privateBooksCount |-> 0]
    /\ calls = EmptyBag
    /\ ops = 0
    /\ last = Step("created", Frame("createBooksStore"), 0, <<>>, NoOutcome)
    /\ clock = 0
    /\ http = <<>>
    /\ result = NoResult

\* ---- loadBooks ---------------------------------------------------------
\* variant: the two fetches are swapped
loadBooksStart_swapped(s, c) ==
    LET s1 == [s EXCEPT !.isLoading = TRUE, !.error = null]
    IN  IF s1.viewType = "all"
        THEN [store |-> s1,
              call |-> [c EXCEPT !.pc = "fetch", !.reqs = <<"getPrivateBooks">>]]
        ELSE IF s1.viewType = "private"
        THEN [store |-> s1,
              call |-> [c EXCEPT !.pc = "fetch", !.reqs = <<"getBooks">>]]
        ELSE [store |-> [s1 EXCEPT !.books = <<>>, !.isLoading = FALSE],
              call |-> [c EXCEPT !.pc = "done"]]

\* variant: error is left as it was at the start of the load
loadBooksStart_keepError(s, c) ==
    LET s1 == [s EXCEPT !.isLoading = TRUE]
    IN  IF s1.viewType = "all"
        THEN [store |-> s1,
              call |-> [c EXCEPT !.pc = "fetch", !.reqs = <<"getBooks">>]]
        ELSE IF s1.viewType = "private"
        THEN [store |-> s1,
              call |-> [c EXCEPT !.pc = "fetch", !.reqs = <<"getPrivateBooks">>]]
        ELSE [store |-> [s1 EXCEPT !.books = <<>>, !.isLoading = FALSE],
              call |-> [c EXCEPT !.pc = "done"]]

\* the part before the await: flags, then the fetch chosen by viewType
loadBooksStart(s, c) ==
    LET s1 == [s EXCEPT !.isLoading = TRUE, !.error = null]
    IN  IF s1.viewType = "all"
        THEN [store |-> s1,
              call |-> [c EXCEPT !.pc = "fetch", !.reqs = <<"getBooks">>]]
        ELSE IF s1.viewType = "private"
        THEN [store |-> s1,
              call |-> [c EXCEPT !.pc = "fetch", !.reqs = <<"getPrivateBooks">>]]
        ELSE \* no fetch and no await: the body runs through
             [store |-> [s1 EXCEPT !.books = <<>>, !.isLoading = FALSE],
              call |-> [c EXCEPT !.pc = "done"]]

\* variant: isLoading is left to the caller
loadBooksSettle_keepLoading(s, c, o) ==
    LET s1 == IF rejected(o)
              THEN [s EXCEPT !.error = IF instanceofError(o) THEN o.msg
                                       ELSE "Failed to load books",
                             !.books = <<>>]
              ELSE [s EXCEPT !.books = IF isArray(o) THEN o.list ELSE <<>>]
    IN  [store |-> s1, call |-> [c EXCEPT !.pc = "done"]]

\* variant: a result that is not an array is reported as a failure
loadBooksSettle_nonArrayError(s, c, o) ==
    LET s1 == IF rejected(o) \/ ~isArray(o)
              THEN [s EXCEPT !.error = IF instanceofError(o) THEN o.msg
                                       ELSE "Failed to load books",
                             !.books = <<>>]
              ELSE [s EXCEPT !.books = o.list]
    IN  [store |-> [s1 EXCEPT !.isLoading = FALSE],
         call |-> [c EXCEPT !.pc = "done"]]

\* variant: a response to a fetch that is not the one for the current
\* viewType is dropped
loadBooksSettle_guarded(s, c, o) ==
    LET fresh == c.reqs = <<IF s.viewType = "all" THEN "getBooks"
                            ELSE "getPrivateBooks">>
        s1 == IF ~fresh THEN s
              ELSE IF rejected(o)
              THEN [s EXCEPT !.error = IF instanceofError(o) THEN o.msg
                                       ELSE "Failed to load books",
                             !.books = <<>>]
              ELSE [s EXCEPT !.books = IF isArray(o) THEN o.list ELSE <<>>]
    IN  [store |-> [s1 EXCEPT !.isLoading = FALSE],
         call |-> [c EXCEPT !.pc = "done"]]

\* variant: the catch block leaves books as they were
loadBooksSettle_keepBooks(s, c, o) ==
    LET s1 == IF rejected(o)
              THEN [s EXCEPT !.error = IF instanceofError(o) THEN o.msg
                                       ELSE "Failed to load books"]
              ELSE [s EXCEPT !.books = IF isArray(o) THEN o.list ELSE <<>>]
    IN  [store |-> [s1 EXCEPT !.isLoading = FALSE],
         call |-> [c EXCEPT !.pc = "done"]]

\* variant: isLoading is reset at the end of the try block, not in a finally
loadBooksSettle_noFinally(s, c, o) ==
    LET s1 == IF rejected(o)
              THEN [s EXCEPT !.error = IF instanceofError(o) THEN o.msg
                                       ELSE "Failed to load books",
                             !.books = <<>>]
              ELSE [s EXCEPT !.books = IF isArray(o) THEN o.list ELSE <<>>,
                             !.isLoading = FALSE]
    IN  [store |-> s1,
         call |-> [c EXCEPT !.pc = "done"]]

\* the part after the await: try/catch/finally
loadBooksSettle(s, c, o) ==
    LET s1 == IF rejected(o)
              THEN [s EXCEPT !.error = IF instanceofError(o) THEN o.msg
                                       ELSE "Failed to load books",
                             !.books = <<>>]
              ELSE [s EXCEPT !.books = IF isArray(o) THEN o.list ELSE <<>>]
    IN  [store |-> [s1 EXCEPT !.isLoading = FALSE],
         call |-> [c EXCEPT !.pc = "done"]]

CallLoadBooks ==
    Called(loadBooksStart(store, Outside("loadBooks")), <<>>)

SettleLoadBooks ==
    \E c \in Running, o \in FetchOutcomes :
        \/ /\ c.op = "loadBooks"
           /\ c.pc = "fetch"
           /\ Moved("settle", c, loadBooksSettle(store, c, o), 0, o)
        \/ \E i \in Kids(c, "loadBooks") :
              /\ c.kids[i].pc = "fetch"
              /\ MovedKid("settle", c, i, loadBooksSettle(store, c.kids[i], o), o)

\* ---- loadPrivateBooksCount ---------------------------------------------
loadPrivateBooksCountStart(s, c) ==
    [store |-> s,
     call |-> [c EXCEPT !.pc = "fetch", !.reqs = <<"getPrivateBooks">>]]

\* variant: no try/catch: a rejection of the fetch rejects the call
loadPrivateBooksCountSettle_noCatch(s, c, o) ==
    LET booksArray == IF isArray(o) THEN o.list ELSE <<>>
    IN  IF rejected(o)
        THEN [store |-> s, call |-> [c EXCEPT !.pc = "rejected"]]
        ELSE [store |-> [s EXCEPT !.privateBooksCount = Len(booksArray)],
              call |-> [c EXCEPT !.pc = "done"]]

\* variant: the catch block reports the failure in error
loadPrivateBooksCountSettle_setsError(s, c, o) ==
    LET booksArray == IF isArray(o) THEN o.list ELSE <<>>
    IN  [store |-> [s EXCEPT !.privateBooksCount =
                                 IF rejected(o) THEN 0 ELSE Len(booksArray),
                             !.error =
                                 IF ~rejected(o) THEN @
                                 ELSE IF instanceofError(o) THEN o.msg
                                 ELSE "Failed to load private books count"],
         call |-> [c EXCEPT !.pc = "done"]]

\* variant: the catch block leaves the count as it was
loadPrivateBooksCountSettle_keepCount(s, c, o) ==
    LET booksArray == IF isArray(o) THEN o.list ELSE <<>>
    IN  [store |-> [s EXCEPT !.privateBooksCount =
                        IF rejected(o) THEN @ ELSE Len(booksArray)],
         call |-> [c EXCEPT !.pc = "done"]]

loadPrivateBooksCountSettle(s, c, o) ==
    LET booksArray == IF isArray(o) THEN o.list ELSE <<>>
    IN  [store |-> [s EXCEPT !.privateBooksCount =
                        IF rejected(o) THEN 0 ELSE Len(booksArray)],
         call |-> [c EXCEPT !.pc = "done"]]

CallLoadPrivateBooksCount ==
    Called(loadPrivateBooksCountStart(store, Outside("loadPrivateBooksCount")), <<>>)

SettleLoadPrivateBooksCount ==
    \E c \in Running, o \in FetchOutcomes :
        \/ /\ c.op = "loadPrivateBooksCount"
           /\ c.pc = "fetch"
           /\ Moved("settle", c, loadPrivateBooksCountSettle(store, c, o), 0, o)
        \/ \E i \in Kids(c, "loadPrivateBooksCount") :
              /\ c.kids[i].pc = "fetch"
              /\ MovedKid("settle", c, i,
                          loadPrivateBooksCountSettle(store, c.kids[i], o), o)

\* a call c makes the store call that runs, up to its await, to r
Made(c, pc, r) ==
    [store |-> r.store, call |-> [c EXCEPT !.pc = pc, !.kids = Append(@, r.call)]]
LastKidReturned(c) == Len(c.kids) > 0 /\ Returned(c.kids[Len(c.kids)])

\* ---- addBook -----------------------------------------------------------
\* variant: only the name is validated
addBookStart_nameOnly(s, c, name, author) ==
    IF name = ""
    THEN [store |-> [s EXCEPT !.error = "Book name and author cannot be empty."],
          call |-> [c EXCEPT !.pc = "done"]]
    ELSE [store |-> [s EXCEPT !.isLoading = TRUE, !.error = null],
          call |-> [c EXCEPT !.pc = "add", !.reqs = <<"addBook">>]]

addBookStart(s, c, name, author) ==
    IF name = "" \/ author = ""
    THEN [store |-> [s EXCEPT !.error = "Book name and author cannot be empty."],
          call |-> [c EXCEPT !.pc = "done"]]
    ELSE [store |-> [s EXCEPT !.isLoading = TRUE, !.error = null],
          call |-> [c EXCEPT !.pc = "add", !.reqs = <<"addBook">>]]

\* variant: after the add only the count is reloaded
addBookSettle_countOnly(s, c, o) ==
    IF o.kind = "true"
    THEN Made(c, "awaitLoadPrivateBooksCount",
              loadPrivateBooksCountStart(s, Frame("loadPrivateBooksCount")))
    ELSE [store |-> [s EXCEPT
                       !.error =
                           IF o.kind = "false"
                           THEN "Repository returned false, book might not have been added."
                           ELSE IF instanceofError(o) THEN o.msg
                           ELSE "Failed to add book",
                       !.isLoading = FALSE],
          call |-> [c EXCEPT !.pc = "done"]]

\* variant: the reload runs whatever the repository returned
addBookSettle_reloadAlways(s, c, o) ==
    IF ~rejected(o)
    THEN Made(c, "awaitLoadBooks", loadBooksStart(s, Frame("loadBooks")))
    ELSE [store |-> [s EXCEPT
                       !.error = IF instanceofError(o) THEN o.msg
                                 ELSE "Failed to add book",
                       !.isLoading = FALSE],
          call |-> [c EXCEPT !.pc = "done"]]

\* variant: isLoading is reset after the reload, not in a finally
addBookSettle_noFinally(s, c, o) ==
    IF o.kind = "true"
    THEN Made(c, "awaitLoadBooks", loadBooksStart(s, Frame("loadBooks")))
    ELSE [store |-> [s EXCEPT
                       !.error =
                           IF o.kind = "false"
                           THEN "Repository returned false, book might not have been added."
                           ELSE IF instanceofError(o) THEN o.msg
                           ELSE "Failed to add book"],
          call |-> [c EXCEPT !.pc = "done"]]

\* repository.addBook has settled: on a truthy result the reload starts
\* (loadBooks runs up to its own await), otherwise catch and finally run
addBookSettle(s, c, o) ==
    IF o.kind = "true"
    THEN Made(c, "awaitLoadBooks", loadBooksStart(s, Frame("loadBooks")))
    ELSE [store |-> [s EXCEPT
                       !.error =
                           IF o.kind = "false"
                           THEN "Repository returned false, book might not have been added."
                           ELSE IF instanceofError(o) THEN o.msg
                           ELSE "Failed to add book",
                       !.isLoading = FALSE],
          call |-> [c EXCEPT !.pc = "done"]]

\* variant: the count reload is left out
addBookAfterLoadBooks_noCount(s, c) ==
    [store |-> [s EXCEPT !.isLoading = FALSE], call |-> [c EXCEPT !.pc = "done"]]

\* await store.loadBooks() has returned: the count reload starts
addBookAfterLoadBooks(s, c) ==
    Made(c, "awaitLoadPrivateBooksCount",
         loadPrivateBooksCountStart(s, Frame("loadPrivateBooksCount")))

\* await store.loadPrivateBooksCount() has returned: finally
addBookFinally(s, c) ==
    [store |-> [s EXCEPT !.isLoading = FALSE], call |-> [c EXCEPT !.pc = "done"]]

CallAddBook ==
    \E name \in Names, author \in Names :
        Called(addBookStart(store, Outside("addBook"), name, author), <<name, author>>)

SettleAddBook ==
    \E c \in Running, o \in AddOutcomes :
        /\ c.op = "addBook"
        /\ c.pc = "add"
        /\ Moved("settle", c, addBookSettle(store, c, o), 0, o)

ResumeAddBook ==
    \E c \in Running :
        /\ c.op = "addBook"
        /\ LastKidReturned(c)
        /\ \/ /\ c.pc = "awaitLoadBooks"
              /\ Moved("resume", c, addBookAfterLoadBooks(store, c), 0, NoOutcome)
           \/ /\ c.pc = "awaitLoadPrivateBooksCount"
              /\ Moved("resume", c, addBookFinally(store, c), 0, NoOutcome)

\* ---- setViewType -------------------------------------------------------
\* variant: the count reload is left out
setViewType_noCount(s, c, type) ==
    IF type = "all" \/ type = "private"
    THEN IF s.viewType # type
         THEN Made(c, "done",
                   loadBooksStart([s EXCEPT !.viewType = type], Frame("loadBooks")))
         ELSE [store |-> s, call |-> [c EXCEPT !.pc = "done"]]
    ELSE [store |-> s, call |-> [c EXCEPT !.pc = "done"]]

\* variant: the reloads run even when the type is the current one
setViewType_noCompare(s, c, type) ==
    IF type = "all" \/ type = "private"
    THEN LET r1 == Made(c, "done",
                        loadBooksStart([s EXCEPT !.viewType = type],
                                       Frame("loadBooks")))
         IN  Made(r1.call, "done",
                  loadPrivateBooksCountStart(r1.store,
                                             Frame("loadPrivateBooksCount")))
    ELSE [store |-> s, call |-> [c EXCEPT !.pc = "done"]]

\* synchronous; the two reloads are started and not awaited
setViewType(s, c, type) ==
    IF type = "all" \/ type = "private"
    THEN IF s.viewType # type
         THEN LET r1 == Made(c, "done",
                             loadBooksStart([s EXCEPT !.viewType = type],
                                            Frame("loadBooks")))
              IN  Made(r1.call, "done",
                       loadPrivateBooksCountStart(r1.store,
                                                  Frame("loadPrivateBooksCount")))
         ELSE [store |-> s, call |-> [c EXCEPT !.pc = "done"]]
    ELSE [store |-> s, call |-> [c EXCEPT !.pc = "done"]]

CallSetViewType ==
    \E type \in ViewTypes :
        Called(setViewType(store, Outside("setViewType"), type), <<type>>)

\* ---- init --------------------------------------------------------------
\* variant: the two loads are started together, the first one not awaited
initStart_unawaited(s, c) ==
    LET r1 == Made(c, "awaitLoadPrivateBooksCount",
                   loadBooksStart(s, Frame("loadBooks")))
    IN  Made(r1.call, "awaitLoadPrivateBooksCount",
             loadPrivateBooksCountStart(r1.store, Frame("loadPrivateBooksCount")))

initStart(s, c) ==
    Made(c, "awaitLoadBooks", loadBooksStart(s, Frame("loadBooks")))

initAfterLoadBooks(s, c) ==
    Made(c, "awaitLoadPrivateBooksCount",
         loadPrivateBooksCountStart(s, Frame("loadPrivateBooksCount")))

initReturn(s, c) == [store |-> s, call |-> [c EXCEPT !.pc = "done"]]

\* init is called once, when the module that creates the store is loaded,
\* before any call from the views
CallInit ==
    /\ ops = 0
    /\ Called(initStart(store, Outside("init")), <<>>)

ResumeInit ==
    \E c \in Running :
        /\ c.op = "init"
        /\ LastKidReturned(c)
        /\ \/ /\ c.pc = "awaitLoadBooks"
              /\ Moved("resume", c, initAfterLoadBooks(store, c), 0, NoOutcome)
           \/ /\ c.pc = "awaitLoadPrivateBooksCount"
              /\ Moved("resume", c, initReturn(store, c), 0, NoOutcome)

\* ---- specification -----------------------------------------------------
Call ==
    \/ CallLoadBooks
    \/ CallLoadPrivateBooksCount
    \/ CallAddBook
    \/ CallSetViewType
    \/ CallInit

Settle ==
    \/ SettleLoadBooks
    \/ SettleLoadPrivateBooksCount
    \/ SettleAddBook

Resume ==
    \/ ResumeAddBook
    \/ ResumeInit

Next == Call \/ Settle \/ Resume

Spec == Init /\ [][Next]_vars

\* every pending repository promise settles in the end, and the event loop
\* runs every continuation that is ready
LiveSpec == Spec /\ WF_vars(Settle \/ Resume)

\* ---- the repository by itself -----------------------------------------
\* a call of the gateway: the function, its arguments and the request it
\* hands to fetch (the body of a POST is JSON.stringify of the payload)
GatewayCall(fn, args) ==
    [fn |-> fn, args |-> args,
     method |-> IF fn = "post" THEN "POST" ELSE "GET",
     url |-> API_URL_BASE \o args[1]]

\* a repository call that made the gateway calls made and returned value
Repository(fn, args, made, response, got, value) ==
    /\ Len(http) + Len(made) <= MaxCalls
    /\ http' = http \o made
    /\ result' = [fn |-> fn, args |-> args, response |-> response, got |-> got,
                  value |-> value, calls |-> made]
    /\ UNCHANGED <<clock, controller>>

\* time passes
Tick ==
    /\ clock < MaxNow
    /\ clock' = clock + 1
    /\ UNCHANGED <<http, result, controller>>

GetBooks ==
    \E response \in Responses :
        LET booksDto == get("/", response)
        IN  Repository("getBooks", <<>>, <<GatewayCall("get", <<"/">>)>>,
                       response, booksDto, getBooks(booksDto))

GetPrivateBooks ==
    \E response \in Responses :
        LET booksDto == get("/private", response)
        IN  Repository("getPrivateBooks", <<>>, <<GatewayCall("get", <<"/private">>)>>,
                       response, booksDto, getPrivateBooks(booksDto))

AddBook ==
    \E bookData \in BookData, random \in Randoms, response \in Responses :
        LET id == generateUniqueId(clock, random)
            payload == Payload(id, bookData)
            bookAddDto == post("/", payload, response)
        IN  Repository("addBook", <<bookData>>,
                       <<GatewayCall("post", <<"/", payload>>)>>,
                       response, bookAddDto, addBook(bookAddDto))

RepositoryNext == Tick \/ GetBooks \/ GetPrivateBooks \/ AddBook

RepositorySpec == Init /\ [][RepositoryNext]_vars

\* ---- properties --------------------------------------------------------
\* the frame that took the last step
Mover == IF last.kid = 0 THEN last.call ELSE last.call.kids[last.kid]
Frames(c) == {c} \cup {c.kids[i] : i \in 1..Len(c.kids)}
AllFrames == UNION {Frames(c) : c \in Running}
KidOps(c) == [i \in 1..Len(c.kids) |-> c.kids[i].op]
FetchFor(viewType) == IF viewType = "all" THEN "getBooks" ELSE "getPrivateBooks"
\* nothing is in flight
Quiet == \A c \in Running : Over(c)

\* C1: a loadBooks call that runs with no other operation beside it makes
\* exactly one repository call, the fetch for the viewType of its run
\* (getBooks for 'all', getPrivateBooks for 'private'), and when that fetch
\* resolves to a list it ends with books = that list, error = null and
\* isLoading = false.
C1_LoadBooksAlone ==
    \A c \in Running :
        (c.op = "loadBooks" /\ c.solo) =>
            /\ store.viewType \in {"all", "private"}
            /\ c.reqs = <<FetchFor(store.viewType)>>
            /\ Requests(c, FetchFor(IF store.viewType = "all" THEN "private" ELSE "all")) = {}
            /\ (Returned(c) /\ isArray(last.got)) =>
                   /\ last.kind = "settle"
                   /\ store.books = last.got.list
                   /\ store.error = null
                   /\ store.isLoading = FALSE

C1_Witness ==
    /\ last.kind = "settle"
    /\ last.call.op = "loadBooks"
    /\ last.call.solo
    /\ store.viewType = "private"
    /\ isArray(last.got)
    /\ store.books = last.got.list
    /\ Len(store.books) > 0

\* C2: when the fetch of a loadBooks call rejects, the call ends with books
\* empty, error = the thrown Error's message (or "Failed to load books" when
\* the thrown value is not an Error) and isLoading = false.
C2_LoadBooksThrows ==
    (last.kind = "settle" /\ Mover.op = "loadBooks" /\ rejected(last.got)) =>
        /\ Returned(Mover)
        /\ store.books = <<>>
        /\ store.error = (IF instanceofError(last.got) THEN last.got.msg
                          ELSE "Failed to load books")
        /\ store.isLoading = FALSE

C2_Witness ==
    /\ last.kind = "settle"
    /\ Mover.op = "loadBooks"
    /\ instanceofError(last.got)
    /\ store.error = "Network Error"
    /\ \E c \in Running : ~Over(c)

\* C3: an addBook whose repository add gave a truthy result runs exactly one
\* loadBooks and then exactly one loadPrivateBooksCount: the count reload is
\* started only when the loadBooks has returned, and addBook returns only
\* when both have returned.
C3_AddBookReloads ==
    \A c \in Running :
        c.op = "addBook" =>
            /\ (last.kind = "settle" /\ last.call = c /\ last.got.kind = "true") =>
                   c.pc = "awaitLoadBooks"
            /\ c.pc \in {"add"} => c.kids = <<>>
            /\ c.pc = "awaitLoadBooks" => KidOps(c) = <<"loadBooks">>
            /\ c.pc = "awaitLoadPrivateBooksCount" =>
                   /\ KidOps(c) = <<"loadBooks", "loadPrivateBooksCount">>
                   /\ Returned(c.kids[1])
            /\ (Returned(c) /\ last.kind = "resume" /\ last.call = c) =>
                   /\ KidOps(c) = <<"loadBooks", "loadPrivateBooksCount">>
                   /\ Returned(c.kids[1])
                   /\ Returned(c.kids[2])
            /\ (Returned(c) /\ c.kids # <<>>) => (last.kind = "resume" /\ last.call = c)

C3_Witness ==
    /\ last.kind = "resume"
    /\ last.call.op = "addBook"
    /\ Returned(last.call)
    /\ KidOps(last.call) = <<"loadBooks", "loadPrivateBooksCount">>

\* the message addBook reports for a failed add
AddError(o) ==
    IF o.kind = "false"
    THEN "Repository returned false, book might not have been added."
    ELSE IF instanceofError(o) THEN o.msg ELSE "Failed to add book"

\* C4: an addBook with non-empty inputs whose repository add gives false or
\* throws sets error to the message of the failure, reloads nothing (it
\* calls no other repository function and leaves books and
\* privateBooksCount as they were) and ends with isLoading = false.
C4_AddBookFails ==
    [][(last'.kind = "settle" /\ last'.call.op = "addBook" /\ last'.kid = 0
            /\ last'.got.kind # "true") =>
        /\ store' = [store EXCEPT !.error = AddError(last'.got), !.isLoading = FALSE]
        /\ Returned(last'.call)
        /\ last'.call.kids = <<>>
        /\ last'.call.reqs = <<"addBook">>]_vars

C4_Witness ==
    /\ last.kind = "settle"
    /\ last.call.op = "addBook"
    /\ last.got.kind = "false"
    /\ store.error = "Repository returned false, book might not have been added."
    /\ Len(store.books) > 0

\* C5: addBook with an empty name or an empty author sets error to
\* "Book name and author cannot be empty." within the call, calls no
\* repository function and leaves books, isLoading, viewType and
\* privateBooksCount as they were.
C5_AddBookValidates ==
    [][(last'.kind = "call" /\ last'.call.op = "addBook"
            /\ (last'.args[1] = "" \/ last'.args[2] = "")) =>
        /\ store' = [store EXCEPT !.error = "Book name and author cannot be empty."]
        /\ Returned(last'.call)
        /\ last'.call.reqs = <<>>
        /\ last'.call.kids = <<>>]_vars

C5_Witness ==
    /\ last.kind = "call"
    /\ last.call.op = "addBook"
    /\ last.args = <<"Dune", "">>
    /\ store.error = "Book name and author cannot be empty."
    /\ store.isLoading

\* C6: setViewType(type) with a valid type other than the current one sets
\* viewType to type, starts one loadBooks (fetching for the new type) and one
\* loadPrivateBooksCount, and returns while both fetches are still pending.
C6_SetViewTypeReloads ==
    [][(last'.kind = "call" /\ last'.call.op = "setViewType"
            /\ last'.args[1] \in {"all", "private"}
            /\ last'.args[1] # store.viewType) =>
        /\ store' = [store EXCEPT !.viewType = last'.args[1],
                                  !.isLoading = TRUE, !.error = null]
        /\ Returned(last'.call)
        /\ last'.call.reqs = <<>>
        /\ KidOps(last'.call) = <<"loadBooks", "loadPrivateBooksCount">>
        /\ last'.call.kids[1].reqs = <<FetchFor(last'.args[1])>>
        /\ last'.call.kids[2].reqs = <<"getPrivateBooks">>
        /\ Pending(last'.call.kids[1])
        /\ Pending(last'.call.kids[2])]_vars

C6_Witness ==
    /\ last.kind = "call"
    /\ last.call.op = "setViewType"
    /\ last.args = <<"private">>
    /\ store.viewType = "private"
    /\ Len(last.call.kids) = 2

\* C7: setViewType(type) with type equal to the current viewType, or with a
\* type that is neither 'all' nor 'private', changes no field of the view
\* state and makes no repository call.
C7_SetViewTypeNoOp ==
    [][(last'.kind = "call" /\ last'.call.op = "setViewType"
            /\ (last'.args[1] = store.viewType
                    \/ last'.args[1] \notin {"all", "private"})) =>
        /\ store' = store
        /\ Returned(last'.call)
        /\ last'.call.reqs = <<>>
        /\ last'.call.kids = <<>>]_vars

C7_Witness ==
    /\ last.kind = "call"
    /\ last.call.op = "setViewType"
    /\ last.args = <<"private">>
    /\ last.call.kids = <<>>
    /\ store.viewType = "private"

\* C8: loadPrivateBooksCount makes exactly one repository call,
\* getPrivateBooks, and when it ends privateBooksCount is the length of the
\* list the fetch resolved to, or 0 when the fetch rejected or resolved to a
\* value that is not a list.
C8_PrivateBooksCount ==
    /\ \A f \in AllFrames :
           f.op = "loadPrivateBooksCount" => f.reqs = <<"getPrivateBooks">>
    /\ (last.kind = "settle" /\ Mover.op = "loadPrivateBooksCount") =>
           /\ Returned(Mover)
           /\ store.privateBooksCount =
                  (IF isArray(last.got) THEN Len(last.got.list) ELSE 0)

C8_Witness ==
    /\ last.kind = "settle"
    /\ Mover.op = "loadPrivateBooksCount"
    /\ isArray(last.got)
    /\ store.privateBooksCount = MaxLen

\* C9: when every repository promise settles, every operation comes to its
\* end, and whenever nothing is in flight isLoading is false, whether the
\* operations succeeded or failed.
C9_NeverStuckLoading ==
    /\ [](Quiet => store.isLoading = FALSE)
    /\ (~Quiet) ~> Quiet

C9_Witness ==
    /\ Quiet
    /\ ops = MaxOps
    /\ last.kind = "settle"
    /\ rejected(last.got)
    /\ store.error # null

\* C10: isLoading is true only while a loadBooks or addBook call has started
\* and not yet returned.
C10_LoadingOnlyInFlight ==
    store.isLoading =>
        \E f \in AllFrames : f.op \in {"loadBooks", "addBook"} /\ ~Returned(f)

C10_Witness ==
    /\ store.isLoading
    /\ Cardinality({c \in Running : ~Over(c)}) = 1
    /\ \E c \in Running : c.op = "addBook" /\ c.pc = "awaitLoadBooks"

\* how many calls of op in the tree c wait for their fetch
Fetching(c, op) ==
    (IF c.op = op /\ c.pc = "fetch" THEN 1 ELSE 0)
        + Cardinality({i \in Kids(c, op) : c.kids[i].pc = "fetch"})
RECURSIVE SumFetching(_, _, _)
SumFetching(B, S, op) ==
    IF S = {} THEN 0
    ELSE LET c == CHOOSE x \in S : TRUE
         IN  B[c] * Fetching(c, op) + SumFetching(B, S \ {c}, op)
\* how many calls of op are in flight
InFlight(op) == SumFetching(calls, Running, op)
\* what a load writes for the outcome o of its fetch
Loaded(o) == IF isArray(o) THEN o.list ELSE <<>>

\* C11: there is no cancellation and no ordering guard between concurrent
\* loads: the response of a loadBooks (loadPrivateBooksCount) writes books
\* (privateBooksCount) whatever else is in flight and whenever its request
\* was issued, it takes no other load out of flight, and nothing but such a
\* response changes books (privateBooksCount); so the final value is the one
\* written by the response that resolved last.
C11_LastResolvedWins ==
    [][/\ (last'.kind = "settle" /\ Mover'.op = "loadBooks") =>
              /\ store'.books = Loaded(last'.got)
              /\ InFlight("loadBooks")' = InFlight("loadBooks") - 1
              /\ InFlight("loadPrivateBooksCount")' = InFlight("loadPrivateBooksCount")
       /\ (last'.kind = "settle" /\ Mover'.op = "loadPrivateBooksCount") =>
              /\ store'.privateBooksCount = Len(Loaded(last'.got))
              /\ InFlight("loadPrivateBooksCount")' = InFlight("loadPrivateBooksCount") - 1
              /\ InFlight("loadBooks")' = InFlight("loadBooks")
       /\ store'.books # store.books =>
              (last'.kind = "settle" /\ Mover'.op = "loadBooks")
       /\ store'.privateBooksCount # store.privateBooksCount =>
              (last'.kind = "settle" /\ Mover'.op = "loadPrivateBooksCount")]_vars

\* the loadBooks of init, issued first with viewType 'all', resolves after
\* the loadBooks of a later setViewType('private') and overwrites its books
C11_Witness ==
    /\ last.kind = "settle"
    /\ last.call.op = "init"
    /\ last.kid = 1
    /\ Mover.reqs = <<"getBooks">>
    /\ isArray(last.got)
    /\ store.books = last.got.list
    /\ Len(store.books) > 0
    /\ store.viewType = "private"
    /\ \E c \in Running :
           /\ c.op = "setViewType"
           /\ Returned(c.kids[1])
           /\ Pending(c.kids[2])

\* C12: whenever no operation is in flight, books was written by a load
\* that used the repository call matching the current viewType; stated at
\* the states a response of a loadBooks leaves with nothing in flight, where
\* that load is the one that wrote books.
C12_BooksMatchViewType ==
    (Quiet /\ last.kind = "settle" /\ Mover.op = "loadBooks"
           /\ store.books = Loaded(last.got)) =>
        Mover.reqs = <<FetchFor(store.viewType)>>

\* the steps of a call from outside that ran alone, once the loadBooks it
\* awaits has got its response: the count's response and the resumptions
AfterLoadBooks(op) ==
    /\ last'.call.op = op
    /\ last'.call.solo
    /\ \/ last'.kind = "resume"
       \/ last'.kind = "settle" /\ last'.kid = 2

\* C13: init awaits one loadBooks and, only when it has returned, one
\* loadPrivateBooksCount, and returns when that has returned.  Run from the
\* initial state with nothing beside it: the loadBooks fetches with
\* getBooks and its list becomes books, with error = null and isLoading =
\* false; the count becomes the length of the list of getPrivateBooks; no
\* later step of init changes books, error or isLoading, so they hold when
\* init completes.
C13_Init ==
    /\ [](\A c \in Running :
            c.op = "init" =>
               /\ c.pc = "awaitLoadBooks" => KidOps(c) = <<"loadBooks">>
               /\ c.pc = "awaitLoadPrivateBooksCount" =>
                      /\ KidOps(c) = <<"loadBooks", "loadPrivateBooksCount">>
                      /\ Returned(c.kids[1])
               /\ Returned(c) =>
                      /\ KidOps(c) = <<"loadBooks", "loadPrivateBooksCount">>
                      /\ Returned(c.kids[1])
                      /\ Returned(c.kids[2])
               /\ c.solo => c.kids[1].reqs = <<"getBooks">>)
    /\ []((last.call.op = "init" /\ last.call.solo /\ last.kind = "settle"
              /\ isArray(last.got)) =>
            /\ last.kid = 1 =>
                   /\ store.books = last.got.list
                   /\ store.error = null
                   /\ store.isLoading = FALSE
            /\ last.kid = 2 =>
                   store.privateBooksCount = Len(last.got.list))
    /\ [][AfterLoadBooks("init") =>
            /\ store'.books = store.books
            /\ store'.error = store.error
            /\ store'.isLoading = store.isLoading
            /\ store'.viewType = "all"
            /\ last'.kind = "resume" => store' = store]_vars

C13_Witness ==
    /\ last.kind = "resume"
    /\ last.call.op = "init"
    /\ last.call.solo
    /\ Returned(last.call)
    /\ Len(store.books) = MaxLen
    /\ store.privateBooksCount = MaxLen
    /\ store.error = null
    /\ store.isLoading = FALSE

\* C14: an addBook with non-empty inputs that runs with nothing beside it
\* and whose add is accepted reloads with one loadBooks, then one
\* loadPrivateBooksCount.  When their fetches resolve to lists, the list of
\* the fetch for the current viewType becomes books with error = null, the
\* length of the list of getPrivateBooks becomes privateBooksCount, no
\* later step of the addBook changes books, error or viewType, and it
\* returns with isLoading = false.
C14_AddBookFinalState ==
    /\ []((last.call.op = "addBook" /\ last.call.solo /\ last.kind = "settle"
              /\ isArray(last.got)) =>
            /\ last.kid = 1 =>
                   /\ Mover.op = "loadBooks"
                   /\ Mover.reqs = <<FetchFor(store.viewType)>>
                   /\ store.books = last.got.list
                   /\ store.error = null
            /\ last.kid = 2 =>
                   /\ Mover.op = "loadPrivateBooksCount"
                   /\ Mover.reqs = <<"getPrivateBooks">>
                   /\ store.privateBooksCount = Len(last.got.list))
    /\ []((last.call.op = "addBook" /\ last.kind = "resume"
              /\ Returned(last.call)) =>
            /\ KidOps(last.call) = <<"loadBooks", "loadPrivateBooksCount">>
            /\ store.isLoading = FALSE)
    /\ [][AfterLoadBooks("addBook") =>
            /\ store'.books = store.books
            /\ store'.error = store.error
            /\ store'.viewType = store.viewType]_vars

C14_Witness ==
    /\ last.kind = "resume"
    /\ last.call.op = "addBook"
    /\ last.call.solo
    /\ Returned(last.call)
    /\ store.viewType = "private"
    /\ Len(store.books) = MaxLen
    /\ store.privateBooksCount = 0
    /\ store.error = null
    /\ store.isLoading = FALSE

\* the payloads of the POSTs made so far
Posted ==
    LET posts == SelectSeq(http, LAMBDA h : h.fn = "post")
    IN  [i \in 1..Len(posts) |-> posts[i].args[2]]

\* C15: any two calls of the repository's addBook send different ids in
\* their POST payloads.
C15_DistinctIds ==
    \A i, j \in 1..Len(Posted) : i # j => Posted[i].id # Posted[j].id

\* C16: the repository's addBook makes exactly one gateway call, a POST to
\* "/" whose payload holds a numeric id and the name and author it was
\* given, and when the POST resolves it returns true exactly when the body
\* is not null and has status "ok", and false for any other body.
C16_AddBook ==
    result.fn = "addBook" =>
        /\ Len(result.calls) = 1
        /\ result.calls[1].fn = "post"
        /\ result.calls[1].method = "POST"
        /\ result.calls[1].url = API_URL_BASE \o "/"
        /\ DOMAIN result.calls[1].args[2] = {"id", "name", "author"}
        /\ result.calls[1].args[2].id \in Nat
        /\ result.calls[1].args[2].name = result.args[1].name
        /\ result.calls[1].args[2].author = result.args[1].author
        /\ result.got.kind = "value" =>
               /\ result.value.kind \in {"true", "false"}
               /\ result.value.kind = "true" <=>
                      (result.got.value.type # "null" /\ result.got.value.status = "ok")

C16_Witness ==
    /\ result.fn = "addBook"
    /\ result.args[1].name = "Dune"
    /\ result.response.text = StatusText("ok")
    /\ result.value.kind = "true"
    /\ Len(http) = MaxCalls

\* C17: getBooks and getPrivateBooks each make one GET ("/" and "/private")
\* and return the body the gateway gives when it is an array and an empty
\* list when it is not; when the gateway fails getPrivateBooks returns an
\* empty list and getBooks fails with the gateway's error.
C17_GetBooks ==
    result.fn \in {"getBooks", "getPrivateBooks"} =>
        /\ Len(result.calls) = 1
        /\ result.calls[1].fn = "get"
        /\ result.calls[1].method = "GET"
        /\ result.calls[1].url =
               API_URL_BASE \o (IF result.fn = "getBooks" THEN "/" ELSE "/private")
        /\ (result.got.kind = "value" /\ result.got.value.type = "array") =>
               result.value = Outcome("array", result.got.value.list, "")
        /\ (result.got.kind = "value" /\ result.got.value.type # "array") =>
               result.value = Outcome("array", <<>>, "")
        /\ (result.got.kind = "Error" /\ result.fn = "getPrivateBooks") =>
               result.value = Outcome("array", <<>>, "")
        /\ (result.got.kind = "Error" /\ result.fn = "getBooks") =>
               /\ rejected(result.value)
               /\ result.value.msg = result.got.msg

C17_Witness ==
    /\ result.fn = "getPrivateBooks"
    /\ ~result.response.ok
    /\ result.got.kind = "Error"
    /\ result.value = Outcome("array", <<>>, "")
    /\ \E i \in 1..Len(http) : http[i].fn = "get" /\ http[i].args[1] = "/"

\* get or post, whichever the repository call just made went through
Through == IF result.fn = "addBook" THEN "post" ELSE "get"

C19_NonArray ==
    /\ [][(last'.kind = "settle" /\ Mover'.op = "loadBooks"
               /\ last'.got.kind = "nonarray") =>
            /\ Returned(Mover')
            /\ store' = [store EXCEPT !.books = <<>>, !.isLoading = FALSE]]_vars
    /\ []((last.kind = "settle" /\ Mover.op = "loadBooks" /\ last.call.solo
               /\ last.got.kind = "nonarray") =>
            store.error = null)

C19_Witness ==
    /\ last.kind = "settle"
    /\ last.call.op = "loadBooks"
    /\ last.call.solo
    /\ last.got.kind = "nonarray"
    /\ store.books = <<>>
    /\ store.error = null
    /\ store.isLoading = FALSE
    /\ store.viewType = "private"

\* C20: loadPrivateBooksCount changes only privateBooksCount: when it is
\* called, alone or from addBook or init, no field changes, and when its
\* fetch settles, to a list, to another value or to a rejection, and
\* whatever else is in flight, only privateBooksCount changes.
C20_OnlyCount ==
    [][/\ (last'.kind = "settle" /\ Mover'.op = "loadPrivateBooksCount") =>
              /\ Returned(Mover')
              /\ store' = [store EXCEPT
                              !.privateBooksCount = Len(Loaded(last'.got))]
       /\ (last'.kind = "call" /\ last'.call.op = "loadPrivateBooksCount") =>
              store' = store
       /\ (last'.kind = "resume" /\ last'.call.pc = "awaitLoadPrivateBooksCount") =>
              /\ Pending(last'.call.kids[2])
              /\ store' = store]_vars

C20_Witness ==
    /\ last.kind = "settle"
    /\ Mover.op = "loadPrivateBooksCount"
    /\ rejected(last.got)
    /\ store.error = null
    /\ store.isLoading
    /\ Len(store.books) > 0
    /\ store.privateBooksCount = 0

\* where a call that has not failed can be: at one of its awaits, or returned
Positions == {"fetch", "add", "awaitLoadBooks", "awaitLoadPrivateBooksCount", "done"}

\* C21: nothing is escalated beyond the store: no call of loadBooks,
\* loadPrivateBooksCount, addBook or init ends by a rejection and
\* setViewType returns within its call; whatever the repository promise
\* settles to, a load returns in that step, and a rejection ends up in error
\* (loadBooks, with books empty; addBook) or in a count of 0
\* (loadPrivateBooksCount).
C21_NothingEscalates ==
    /\ \A f \in AllFrames : f.pc \in Positions
    /\ (last.kind = "call" /\ last.call.op = "setViewType") => Returned(last.call)
    /\ (last.kind = "resume" /\ last.call.op = "init") =>
           last.call.pc \in {"awaitLoadPrivateBooksCount", "done"}
    /\ last.kind = "settle" =>
           /\ Mover.op \in {"loadBooks", "loadPrivateBooksCount"} => Returned(Mover)
           /\ Mover.op = "addBook" => Mover.pc \in {"awaitLoadBooks", "done"}
           /\ rejected(last.got) =>
                  /\ Returned(Mover)
                  /\ Mover.op = "loadBooks" =>
                         (store.error # null /\ store.books = <<>>)
                  /\ Mover.op = "addBook" => store.error # null
                  /\ Mover.op = "loadPrivateBooksCount" =>
                         store.privateBooksCount = 0

C21_Witness ==
    /\ last.kind = "settle"
    /\ last.call.op = "init"
    /\ last.kid = 2
    /\ last.got.kind = "thrown"
    /\ Returned(Mover)
    /\ store.privateBooksCount = 0
    /\ store.error = null
    /\ Len(store.books) > 0

\* the step just taken started a loadBooks, or an addBook that passed
\* validation: called from outside, or by init, setViewType or addBook
Started ==
    \/ /\ last.kind = "call"
       /\ \/ last.call.op \in {"loadBooks", "init"}
          \/ last.call.op = "addBook" /\ last.call.pc = "add"
          \/ last.call.op = "setViewType" /\ last.call.kids # <<>>
    \/ /\ last.kind = "settle"
       /\ last.kid = 0
       /\ last.call.op = "addBook"
       /\ last.call.pc = "awaitLoadBooks"
\* the step just taken was a failure: a rejected fetch of loadBooks, an add
\* that was rejected or gave false, or an addBook that did not pass validation
Failed ==
    \/ last.kind = "settle" /\ Mover.op = "loadBooks" /\ rejected(last.got)
    \/ last.kind = "settle" /\ Mover.op = "addBook" /\ last.got.kind # "true"
    \/ last.kind = "call" /\ last.call.op = "addBook" /\ Returned(last.call)

\* C22: every loadBooks and every addBook that passes validation sets error
\* to null and isLoading to true in the step that starts it, with its
\* repository call issued and pending; and error is set to a message only
\* by a failure, so an error that is there was written by a failure that
\* came after the start of the loadBooks or addBook started last.
C22_ErrorCleared ==
    [][/\ Started' =>
              /\ store'.error = null
              /\ store'.isLoading = TRUE
              /\ \E f \in Frames(last'.call) : Pending(f)
       /\ (store'.error # null /\ store'.error # store.error) => Failed']_vars

\* a loadBooks fails after a later call has started and ended beside it, and
\* leaves its error with nothing in flight
C22_Witness ==
    /\ Quiet
    /\ Failed
    /\ last.call.op = "loadBooks"
    /\ ~last.call.solo
    /\ ops = MaxOps
    /\ store.error = "Failed to load books"

\* ---- a remote private list that does not change -------------------------
\* the list of private books on the server
RemotePrivateBooks == <<"b1">>
\* every getPrivateBooks resolves to that list; getBooks resolves or rejects
\* as before
Steady ==
    (last.kind = "settle" /\ Mover.reqs = <<"getPrivateBooks">>) =>
        last.got = Outcome("array", RemotePrivateBooks, "")
SteadyNext == Next /\ Steady'
SteadySpec == Init /\ [][SteadyNext]_vars

\* C23: whenever viewType is 'private', nothing is in flight, error is null
\* and the remote private list did not change between the fetches,
\* privateBooksCount is the length of books.
C23_CountMatchesBooks ==
    (store.viewType = "private" /\ Quiet /\ store.error = null) =>
        store.privateBooksCount = Len(store.books)

\* the Add Book button of the view is not disabled
AddBookEnabled == ~store.isLoading

\* C24: in an addBook whose add succeeded, the loadBooks of the reload sets
\* isLoading to false when its fetch settles, while the addBook still waits
\* for it and the count reload is not yet started; isLoading stays false
\* through the count reload of an addBook with nothing beside it, so the Add
\* Book button, disabled only while isLoading, is enabled while that addBook
\* is in flight and a second addBook can start before the first has
\* completed.
C24_LoadingResetEarly ==
    /\ (last.kind = "settle" /\ last.call.op = "addBook" /\ last.kid = 1) =>
           /\ Mover.op = "loadBooks"
           /\ store.isLoading = FALSE
           /\ last.call.pc = "awaitLoadBooks"
           /\ KidOps(last.call) = <<"loadBooks">>
    /\ \A c \in Running :
           (c.op = "addBook" /\ c.solo /\ ~Returned(c) /\ c.kids # <<>>
                /\ Returned(c.kids[1])) =>
               AddBookEnabled

\* a second addBook has started while the first waits for its count reload
C24_Witness ==
    /\ last.kind = "call"
    /\ last.call.op = "addBook"
    /\ last.call.pc = "add"
    /\ \E c \in Running :
           /\ c.op = "addBook"
           /\ c.pc = "awaitLoadPrivateBooksCount"
           /\ Pending(c.kids[2])

\* ---- the store wired to the repository ----------------------------------
\* booksStore = createBooksStore(booksRepository): what a repository promise
\* settles to is what the repository makes of the response of the server
\* (the payload of a POST, sent when the call started, has no part in what
\* post returns)
Served(fn, response) ==
    LET got == IF fn = "getBooks" THEN get("/", response)
               ELSE IF fn = "getPrivateBooks" THEN get("/private", response)
               ELSE post("/", <<>>, response)
        value == IF fn = "getBooks" THEN getBooks(got)
                 ELSE IF fn = "getPrivateBooks" THEN getPrivateBooks(got)
                 ELSE addBook(got)
    IN  [fn |-> fn, args |-> <<>>, response |-> response, got |-> got,
         value |-> value, calls |-> <<>>]

\* the response to the request of a pending call has come
Answered(served) ==
    /\ result' = served
    /\ UNCHANGED <<clock, http>>

WiredSettleLoadBooks ==
    \E c \in Running, response \in Responses :
        \/ /\ c.op = "loadBooks"
           /\ c.pc = "fetch"
           /\ LET served == Served(c.reqs[1], response)
              IN  /\ Went("settle", c, loadBooksSettle(store, c, served.value),
                          0, served.value)
                  /\ Answered(served)
        \/ \E i \in Kids(c, "loadBooks") :
              /\ c.kids[i].pc = "fetch"
              /\ LET served == Served(c.kids[i].reqs[1], response)
                 IN  /\ Went("settle", c,
                             Lifted(c, i, loadBooksSettle(store, c.kids[i], served.value)),
                             i, served.value)
                     /\ Answered(served)

WiredSettleLoadPrivateBooksCount ==
    \E c \in Running, response \in Responses :
        LET served == Served("getPrivateBooks", response)
        IN  \/ /\ c.op = "loadPrivateBooksCount"
               /\ c.pc = "fetch"
               /\ Went("settle", c,
                       loadPrivateBooksCountSettle(store, c, served.value),
                       0, served.value)
               /\ Answered(served)
            \/ \E i \in Kids(c, "loadPrivateBooksCount") :
                  /\ c.kids[i].pc = "fetch"
                  /\ Went("settle", c,
                          Lifted(c, i, loadPrivateBooksCountSettle(store, c.kids[i],
                                                                   served.value)),
                          i, served.value)
                  /\ Answered(served)

WiredSettleAddBook ==
    \E c \in Running, response \in Responses :
        LET served == Served("addBook", response)
        IN  /\ c.op = "addBook"
            /\ c.pc = "add"
            /\ Went("settle", c, addBookSettle(store, c, served.value), 0, served.value)
            /\ Answered(served)

WiredCall ==
    /\ ops < MaxWired
    /\ Call

WiredSettle ==
    \/ WiredSettleLoadBooks
    \/ WiredSettleLoadPrivateBooksCount
    \/ WiredSettleAddBook

WiredNext == WiredCall \/ WiredSettle \/ Resume

WiredSpec == Init /\ [][WiredNext]_vars

\* C25: with the repository of Books.repository.ts behind the store, a
\* failure of the gateway during a loadBooks ends the load with books empty
\* and isLoading false; when the load fetched with getPrivateBooks the
\* failure is swallowed and error is left as it was, null when nothing ran
\* beside the load; when it fetched with getBooks, error is the message of
\* the failure.
C25_FailureByMode ==
    [][(last'.kind = "settle" /\ Mover'.op = "loadBooks"
            /\ result'.got.kind = "Error") =>
        /\ Returned(Mover')
        /\ store'.books = <<>>
        /\ store'.isLoading = FALSE
        /\ Mover'.reqs = <<"getPrivateBooks">> =>
               /\ ~rejected(last'.got)
               /\ store'.error = store.error
               /\ last'.call.solo => store'.error = null
        /\ Mover'.reqs = <<"getBooks">> =>
               store'.error = result'.got.msg]_vars

\* the private load started by setViewType meets a server error
C25_Witness ==
    /\ last.kind = "settle"
    /\ last.call.op = "setViewType"
    /\ Mover.op = "loadBooks"
    /\ store.viewType = "private"
    /\ result.got = Got("Error", JSONnull, "HTTP error 500: Internal Server Error")
    /\ store.books = <<>>
    /\ store.error = null
====
